---- MODULE Spec2Model ----
(***************************************************************************)
(* mxRadialTreeLayout (src/src/mxgraph/layout/mxRadialTreeLayout.js).      *)
(*                                                                         *)
(* The layout instance, the graph it lays out and the phases of execute    *)
(* are modelled as a state machine.  Numbers are fixed point integers:     *)
(* coordinates are pixels, gradients are in 1/GradScale, angles are in     *)
(* units of pi/PI radians, cos and sin are in 1/TrigScale.  JavaScript     *)
(* arrays are sequences, so that the entry the code calls arr[i] is the    *)
(* (i+1)-th entry of the sequence.                                         *)
(***************************************************************************)
EXTENDS Integers, Sequences, FiniteSets, TLC

(***************************************************************************)
(* Numbers                                                                 *)
(***************************************************************************)

\* The value of an arithmetic expression over undefined (an array entry or a
\* field that was never set) or over NaN.
NaN == -1000000000

\* The resolution of a gradient (a ratio of two pixel distances).
GradScale == 50

\* Math.PI in angle units: an angle a stands for a * pi / PI radians.
PI == 500

\* The resolution of Math.cos and Math.sin.
TrigScale == 1000

IsNum(a) == a # NaN

Add(a, b) == IF IsNum(a) /\ IsNum(b) THEN a + b ELSE NaN

Sub(a, b) == IF IsNum(a) /\ IsNum(b) THEN a - b ELSE NaN

Mul(a, b) == IF IsNum(a) /\ IsNum(b) THEN a * b ELSE NaN

\* a / b scaled by s.  A zero divisor is taken to NaN as well: every divisor
\* of the layout is a row radius or a width, and RadiiPositive and
\* FullWidthPositive below state that none of them is ever zero.
Div(a, s, b) ==
    IF IsNum(a) /\ IsNum(b) /\ b # 0 THEN (a * s) \div b ELSE NaN

\* Math.max and Math.min: NaN if either argument is NaN.
MathMax(a, b) == IF IsNum(a) /\ IsNum(b) THEN (IF a >= b THEN a ELSE b) ELSE NaN

MathMin(a, b) == IF IsNum(a) /\ IsNum(b) THEN (IF a <= b THEN a ELSE b) ELSE NaN

\* a > b and a < b: false when either side is NaN.
Gt(a, b) == IsNum(a) /\ IsNum(b) /\ a > b

Lt(a, b) == IsNum(a) /\ IsNum(b) /\ a < b

\* Math.sin on [0, pi], by Bhaskara's rational approximation
\* 16 t (pi - t) / (5 pi^2 - 4 t (pi - t)).
SinHalf(t) == (TrigScale * 16 * t * (PI - t)) \div (5 * PI * PI - 4 * t * (PI - t))

MathSin(a) ==
    IF ~IsNum(a) THEN NaN
    ELSE LET t == a % (2 * PI)
         IN  IF t <= PI THEN SinHalf(t) ELSE 0 - SinHalf(t - PI)

MathCos(a) == IF ~IsNum(a) THEN NaN ELSE MathSin(a + PI \div 2)

\* radius * cos(theta) and radius * sin(theta), in pixels.
Polar(r, c) == IF IsNum(r) /\ IsNum(c) THEN (r * c) \div TrigScale ELSE NaN

(***************************************************************************)
(* JavaScript arrays                                                       *)
(***************************************************************************)

\* arr[i], undefined past the end.
At(arr, i) == IF i + 1 \in DOMAIN arr THEN arr[i + 1] ELSE NaN

\* arr[i] = v: overwrites, or extends the array (the entries skipped stay
\* undefined).
RECURSIVE SetAt(_, _, _, _)
SetAt(arr, i, v, hole) ==
    IF i + 1 \in DOMAIN arr THEN [arr EXCEPT ![i + 1] = v]
    ELSE IF Len(arr) = i THEN Append(arr, v)
    ELSE SetAt(Append(arr, hole), i, v, hole)

\* The members of a finite set of integers in ascending order.
RECURSIVE Ascending(_)
Ascending(S) ==
    IF S = {} THEN << >>
    ELSE LET m == CHOOSE x \in S : \A y \in S : x <= y
         IN  << m >> \o Ascending(S \ {m})

(***************************************************************************)
(* The graph                                                               *)
(***************************************************************************)

\* The cells of the graph.
V == 1 .. 5

\* null: no cell, no layout node.
Null == 0

\* levelDistance and nodeDistance of the layout.
levelDistance == 120

nodeDistance == 10

\* The edges that touch a vertex: the edge from its parent and the edges to
\* its children (par[u] is the source of the only edge into u, or Null).
getConnections(g, v) ==
    {<< g.par[v], v >> : u \in {x \in {v} : g.par[x] # Null}}
        \cup {<< v, u >> : u \in {x \in V : g.par[x] = v}}

\* mxGraphLayout.isVertexIgnored: a cell that is no vertex, or is not visible.
baseIsVertexIgnored(g, v) == v \in g.hidden

isVertexIgnored(g, v) ==
    baseIsVertexIgnored(g, v) \/ Cardinality(getConnections(g, v)) = 0

(***************************************************************************)
(* The tree builder and the compact tree layout (mxCompactTreeLayout)      *)
(***************************************************************************)

\* The children of v that the depth first search visits, in edge order.
Kids(g, v) == Ascending({u \in V : g.par[u] = v /\ ~isVertexIgnored(g, u)})

\* The vertices of the tree below v, v included.
RECURSIVE Subtree(_, _)
Subtree(g, v) ==
    {v} \cup UNION {Subtree(g, Kids(g, v)[k]) : k \in 1 .. Len(Kids(g, v))}

\* this.visited: the vertices the search from root makes layout nodes of.
Visited(g, root) == IF isVertexIgnored(g, root) THEN {} ELSE Subtree(g, root)

\* The layout node that run number gen makes of vertex v.
NodeOf(gen, v) == gen * 10 + v

\* dfs: the layout nodes of one run, each with its first child and its next
\* sibling.  The root has no sibling.
dfs(g, root, gen) ==
    [id \in {NodeOf(gen, v) : v \in Visited(g, root)} |->
        LET v == id - gen * 10
            kids == Kids(g, v)
            sibs == IF v = root THEN << v >> ELSE Kids(g, g.par[v])
            at == CHOOSE k \in 1 .. Len(sibs) : sibs[k] = v
        IN  [cell |-> v,
             child |-> IF Len(kids) = 0 THEN Null ELSE NodeOf(gen, kids[1]),
             next |-> IF at = Len(sibs) THEN Null ELSE NodeOf(gen, sibs[at + 1]),
             theta |-> NaN]]

SeqMax(s) == CHOOSE x \in {s[k] : k \in DOMAIN s} : \A k \in DOMAIN s : s[k] <= x

\* Places the subtrees subs[k], subs[k+1], ... to the right of those placed
\* so far: each as far left as keeps, on every level, nodeDistance between
\* the right contour of what is placed and the left contour of the subtree.
RECURSIVE PlaceKids(_, _, _)
PlaceKids(subs, k, acc) ==
    IF k > Len(subs) THEN acc
    ELSE LET s == subs[k]
             both == {d \in DOMAIN acc.rc : d \in DOMAIN s.lc}
             pos == IF k = 1 THEN 0
                    ELSE SeqMax([d \in 1 .. Cardinality(both) |->
                                    acc.rc[d] + nodeDistance - s.lc[d]])
             deep == IF Len(acc.rc) >= Len(s.lc) THEN Len(acc.rc) ELSE Len(s.lc)
             lc == [d \in 1 .. deep |->
                      IF d \in both
                      THEN (IF acc.lc[d] <= pos + s.lc[d]
                            THEN acc.lc[d] ELSE pos + s.lc[d])
                      ELSE IF d \in DOMAIN acc.lc THEN acc.lc[d]
                      ELSE pos + s.lc[d]]
             rc == [d \in 1 .. deep |->
                      IF d \in both
                      THEN (IF acc.rc[d] >= pos + s.rc[d]
                            THEN acc.rc[d] ELSE pos + s.rc[d])
                      ELSE IF d \in DOMAIN acc.rc THEN acc.rc[d]
                      ELSE pos + s.rc[d]]
         IN  PlaceKids(subs, k + 1,
                       [pos |-> Append(acc.pos, pos), lc |-> lc, rc |-> rc])

\* The layout of the subtree of v relative to the centre of v: the offset of
\* the centre of every vertex of the subtree, and the left and right
\* contour of the subtree level by level.  The children are packed by
\* PlaceKids and v is centred over its first and last child.
RECURSIVE SubLayout(_, _)
SubLayout(g, v) ==
    LET kids == Kids(g, v)
        half == g.w[v] \div 2
    IN  IF Len(kids) = 0
        THEN [off |-> (v :> 0), lc |-> << 0 - half >>, rc |-> << half >>]
        ELSE LET subs == [k \in 1 .. Len(kids) |-> SubLayout(g, kids[k])]
                 placed == PlaceKids(subs, 1,
                                     [pos |-> << >>, lc |-> << >>, rc |-> << >>])
                 mid == (placed.pos[1] + placed.pos[Len(kids)]) \div 2
                 below == UNION {DOMAIN subs[k].off : k \in 1 .. Len(kids)}
             IN  [off |-> [u \in {v} \cup below |->
                             IF u = v THEN 0
                             ELSE LET k == CHOOSE j \in 1 .. Len(kids) :
                                               u \in DOMAIN subs[j].off
                                  IN  placed.pos[k] - mid + subs[k].off[u]],
                  lc |-> << 0 - half >> \o
                             [d \in 1 .. Len(placed.lc) |-> placed.lc[d] - mid],
                  rc |-> << half >> \o
                             [d \in 1 .. Len(placed.rc) |-> placed.rc[d] - mid]]

\* The y of a vertex of the tree: each level lies levelDistance below the
\* bottom of its parent.
RECURSIVE LevelY(_, _, _, _)
LevelY(g, geo, root, v) ==
    IF v = root THEN geo.y[root]
    ELSE LevelY(g, geo, root, g.par[v]) + g.h[g.par[v]] + levelDistance

\* The bounds after mxCompactTreeLayout.execute: the root stays where it is
\* and every other visited vertex is placed relative to it.
compactLayout(g, geo, root) ==
    IF isVertexIgnored(g, root) THEN geo
    ELSE LET sub == SubLayout(g, root)
             cx == geo.x[root] + g.w[root] \div 2
         IN  [x |-> [v \in V |->
                       IF v \in DOMAIN sub.off
                       THEN cx + sub.off[v] - g.w[v] \div 2 ELSE geo.x[v]],
              y |-> [v \in V |->
                       IF v \in DOMAIN sub.off
                       THEN LevelY(g, geo, root, v) ELSE geo.y[v]]]

(***************************************************************************)
(* mxRadialTreeLayout                                                      *)
(***************************************************************************)

\* getVertexBounds(cell).x + width / 2 and .y + height / 2.
CenX(g, geo, v) == geo.x[v] + g.w[v] \div 2

CenY(g, geo, v) == geo.y[v] + g.h[v] \div 2

\* A layout instance as the constructor leaves it.
NewLayout ==
    [pc |-> "idle", gen |-> 0, root |-> Null, node |-> Null, heap |-> << >>,
     centerX |-> NaN, centerY |-> NaN,
     rowMinX |-> << >>, rowMaxX |-> << >>, rowMinCenX |-> << >>,
     rowMaxCenX |-> << >>, rowRadi |-> << >>, row |-> << >>,
     maxLeftGrad |-> 0, maxRightGrad |-> 0]

\* super.execute(parent, root), the layout's part: the root, and the layout
\* nodes of this run.
superExecute(l, g, root) ==
    [l EXCEPT !.gen = l.gen + 1,
              !.root = root,
              !.node = IF isVertexIgnored(g, root) THEN Null
                       ELSE NodeOf(l.gen + 1, root),
              !.heap = dfs(g, root, l.gen + 1) @@ l.heap]

\* centerX and centerY from the bounds of the root.
computeCenter(l, g, geo) ==
    [l EXCEPT !.centerX = CenX(g, geo, l.root),
              !.centerY = CenY(g, geo, l.root)]

\* The node alone, as an if in place of the while would meet it.
ChainFirstOnly(heap, n) == IF n = Null THEN << >> ELSE << n >>

\* node, node.next, node.next.next, ...
RECURSIVE Chain(_, _)
Chain(heap, n) ==
    IF n = Null THEN << >> ELSE << n >> \o Chain(heap, heap[n].next)

\* The children of the nodes of a row, in the order the two loops of
\* calcRowDims meet them.
RECURSIVE ChildrenOf(_, _, _)
ChildrenOf(heap, row, i) ==
    IF i > Len(row) THEN << >>
    ELSE Chain(heap, IF row[i] # Null THEN heap[row[i]].child ELSE Null)
             \o ChildrenOf(heap, row, i + 1)

\* The head of calcRowDims: the entries of row rowNum start at the centre.
resetRow(l, rowNum) ==
    [l EXCEPT !.rowMinX = SetAt(l.rowMinX, rowNum, l.centerX, NaN),
              !.rowMaxX = SetAt(l.rowMaxX, rowNum, l.centerX, NaN),
              !.rowMinCenX = SetAt(l.rowMinCenX, rowNum, l.centerX, NaN),
              !.rowMaxCenX = SetAt(l.rowMaxCenX, rowNum, l.centerX, NaN),
              !.row = SetAt(l.row, rowNum, << >>, << >>)]

\* The body of the while loop that sets the radius of a row from the first
\* child of the row only.
visitChildFirstRadius(l, g, geo, rowNum, child) ==
    LET cell == l.heap[child].cell
        x == geo.x[cell]
        wd == g.w[cell]
    IN  [l EXCEPT
            !.rowMinX = SetAt(l.rowMinX, rowNum,
                              MathMin(x, At(l.rowMinX, rowNum)), NaN),
            !.rowMaxX = SetAt(l.rowMaxX, rowNum,
                              MathMax(x + wd, At(l.rowMaxX, rowNum)), NaN),
            !.rowMinCenX = SetAt(l.rowMinCenX, rowNum,
                              MathMin(x + wd \div 2, At(l.rowMinCenX, rowNum)), NaN),
            !.rowMaxCenX = SetAt(l.rowMaxCenX, rowNum,
                              MathMax(x + wd \div 2, At(l.rowMaxCenX, rowNum)), NaN),
            !.rowRadi = IF Len(l.row[rowNum + 1]) = 0
                        THEN SetAt(l.rowRadi, rowNum, geo.y[cell] - geo.y[l.root], NaN)
                        ELSE l.rowRadi,
            !.row = SetAt(l.row, rowNum, Append(l.row[rowNum + 1], child), << >>)]

\* The body of the while loop of calcRowDims for one child.
visitChild(l, g, geo, rowNum, child) ==
    LET cell == l.heap[child].cell
        x == geo.x[cell]
        wd == g.w[cell]
    IN  [l EXCEPT
            !.rowMinX = SetAt(l.rowMinX, rowNum,
                              MathMin(x, At(l.rowMinX, rowNum)), NaN),
            !.rowMaxX = SetAt(l.rowMaxX, rowNum,
                              MathMax(x + wd, At(l.rowMaxX, rowNum)), NaN),
            !.rowMinCenX = SetAt(l.rowMinCenX, rowNum,
                              MathMin(x + wd \div 2, At(l.rowMinCenX, rowNum)), NaN),
            !.rowMaxCenX = SetAt(l.rowMaxCenX, rowNum,
                              MathMax(x + wd \div 2, At(l.rowMaxCenX, rowNum)), NaN),
            !.rowRadi = SetAt(l.rowRadi, rowNum, geo.y[cell] - geo.y[l.root], NaN),
            !.row = SetAt(l.row, rowNum, Append(l.row[rowNum + 1], child), << >>)]

RECURSIVE visitChildren(_, _, _, _, _, _)
visitChildren(l, g, geo, rowNum, children, k) ==
    IF k > Len(children) THEN l
    ELSE visitChildren(visitChild(l, g, geo, rowNum, children[k]),
                       g, geo, rowNum, children, k + 1)

\* The two loops of calcRowDims over the children of the nodes of row.
calcRow(l, g, geo, row, rowNum) ==
    visitChildren(resetRow(l, rowNum), g, geo, rowNum, ChildrenOf(l.heap, row, 1), 1)

\* rowHasChildren set from the nodes of row, not from their children.
rowHasChildrenOfRow(l, row) ==
    \E k \in 1 .. Len(row) : row[k] # Null /\ l.heap[row[k]].child # Null

\* rowHasChildren after the loops: a child of a node of row has a child.
rowHasChildren(l, row) ==
    LET children == ChildrenOf(l.heap, row, 1)
    IN  \E k \in 1 .. Len(children) : l.heap[children[k]].child # Null

RECURSIVE calcRowDims(_, _, _, _, _)

\* calcRowDims that returns at once as well when no node of row has a child.
calcRowDimsLeafCheck(l, g, geo, row, rowNum) ==
    IF Len(row) = 0 \/ Len(ChildrenOf(l.heap, row, 1)) = 0 THEN l
    ELSE IF rowHasChildren(l, row)
    THEN calcRowDims(calcRow(l, g, geo, row, rowNum), g, geo,
                     calcRow(l, g, geo, row, rowNum).row[rowNum + 1], rowNum + 1)
    ELSE calcRow(l, g, geo, row, rowNum)

\* calcRowDims(row, rowNum).
calcRowDims(l, g, geo, row, rowNum) ==
    IF Len(row) = 0 THEN l
    ELSE IF rowHasChildren(l, row)
    THEN calcRowDims(calcRow(l, g, geo, row, rowNum), g, geo,
                     calcRow(l, g, geo, row, rowNum).row[rowNum + 1], rowNum + 1)
    ELSE calcRow(l, g, geo, row, rowNum)

\* The number of calls of calcRowDims that calcRowDims(row, rowNum) makes,
\* itself included.
RECURSIVE calcRowDimsCalls(_, _, _, _, _)
calcRowDimsCalls(l, g, geo, row, rowNum) ==
    IF Len(row) = 0 THEN 1
    ELSE IF rowHasChildren(l, row)
    THEN 1 + calcRowDimsCalls(calcRow(l, g, geo, row, rowNum), g, geo,
                              calcRow(l, g, geo, row, rowNum).row[rowNum + 1],
                              rowNum + 1)
    ELSE 1

\* leftGrad and rightGrad of row i.
leftGrad(l, i) ==
    Div(Sub(Sub(l.centerX, At(l.rowMinX, i)), nodeDistance),
        GradScale, At(l.rowRadi, i))

rightGrad(l, i) ==
    Div(Sub(Sub(At(l.rowMaxX, i), l.centerX), nodeDistance),
        GradScale, At(l.rowRadi, i))

\* The body of the gradient loop that passes over a row without nodes.
steepestSkipEmptyRow(l, i) ==
    IF Len(l.row[i + 1]) = 0 THEN l
    ELSE [l EXCEPT !.maxLeftGrad = MathMax(l.maxLeftGrad, leftGrad(l, i)),
                   !.maxRightGrad = MathMax(l.maxRightGrad, rightGrad(l, i))]

\* The body of the loop that finds the steepest gradients, for row i.
steepest(l, i) ==
    [l EXCEPT !.maxLeftGrad = MathMax(l.maxLeftGrad, leftGrad(l, i)),
              !.maxRightGrad = MathMax(l.maxRightGrad, rightGrad(l, i))]

\* The loop that finds the steepest left and right gradients, from row i on.
RECURSIVE gradients(_, _)
gradients(l, i) ==
    IF i >= Len(l.row) THEN l ELSE gradients(steepest(l, i), i + 1)

\* xLeftLimit, xRightLimit and fullWidth of row i, in 1/GradScale pixels.
xLeftLimit(l, i) ==
    Sub(Mul(Sub(l.centerX, nodeDistance), GradScale),
        Mul(l.maxLeftGrad, At(l.rowRadi, i)))

xRightLimit(l, i) ==
    Add(Mul(Add(l.centerX, nodeDistance), GradScale),
        Mul(l.maxRightGrad, At(l.rowRadi, i)))

fullWidth(l, i) == Sub(xRightLimit(l, i), xLeftLimit(l, i))

\* theta measured from the right limit instead of the left.
thetaOfMirrored(l, g, geo, i, v) ==
    Div(Sub(xRightLimit(l, i), Mul(CenX(g, geo, v), GradScale)),
        2 * PI, fullWidth(l, i))

\* theta = 2 * Math.PI * xProportion of the node of vertex v in row i.
thetaOf(l, g, geo, i, v) ==
    Div(Sub(Mul(CenX(g, geo, v), GradScale), xLeftLimit(l, i)),
        2 * PI, fullWidth(l, i))

\* The loops that give every node of every row its theta, from row[i][j] on.
RECURSIVE polar(_, _, _, _, _)
polar(l, g, geo, i, j) ==
    IF i >= Len(l.row) THEN l
    ELSE IF j >= Len(l.row[i + 1]) THEN polar(l, g, geo, i + 1, 0)
    ELSE LET node == l.row[i + 1][j + 1]
             theta == thetaOf(l, g, geo, i, l.heap[node].cell)
         IN  polar([l EXCEPT !.heap[node].theta = theta], g, geo, i, j + 1)

\* The sum of the theta of child, child.next, ...
RECURSIVE totalTheta(_, _)
totalTheta(heap, child) ==
    IF child = Null THEN 0
    ELSE Add(heap[child].theta, totalTheta(heap, heap[child].next))

\* The theta that the post-processing gives row[i][j]: the average of the
\* theta of its children, kept PI / 10 from the next or the previous node.
alignedTheta(l, i, j) ==
    LET row == l.row[i + 1]
        node == row[j + 1]
        theta == l.heap[node].theta
        counter == Len(Chain(l.heap, l.heap[node].child))
        averTheta == Div(totalTheta(l.heap, l.heap[node].child), 1, counter)
    IN  IF counter > 0
        THEN IF Gt(averTheta, theta) /\ j < Len(row) - 1
             THEN MathMin(averTheta, Sub(l.heap[row[j + 2]].theta, PI \div 10))
             ELSE IF Lt(averTheta, theta) /\ j > 0
             THEN MathMax(averTheta, Add(l.heap[row[j]].theta, PI \div 10))
             ELSE theta
        ELSE theta

\* The post-processing loops, from row[i][j] on, from outside inwards.
RECURSIVE reconcile(_, _, _)
reconcile(l, i, j) ==
    IF i < 0 THEN l
    ELSE IF j >= Len(l.row[i + 1])
    THEN (IF i = 0 THEN l ELSE reconcile(l, i - 1, 0))
    ELSE reconcile([l EXCEPT !.heap[l.row[i + 1][j + 1]].theta = alignedTheta(l, i, j)],
                   i, j + 1)

\* The location that the last loop gives the vertex of row[i][j].
locationX(l, g, i, j) ==
    LET node == l.heap[l.row[i + 1][j + 1]]
    IN  Add(Sub(l.centerX, g.w[node.cell] \div 2),
            Polar(At(l.rowRadi, i), MathCos(node.theta)))

locationY(l, g, i, j) ==
    LET node == l.heap[l.row[i + 1][j + 1]]
    IN  Add(Sub(l.centerY, g.h[node.cell] \div 2),
            Polar(At(l.rowRadi, i), MathSin(node.theta)))

\* setVertexLocation(cell, x, y).
setVertexLocation(geo, cell, x, y) ==
    [x |-> [geo.x EXCEPT ![cell] = x], y |-> [geo.y EXCEPT ![cell] = y]]

\* The loops that set the locations, from row[i][j] on.
RECURSIVE setLocations(_, _, _, _, _)
setLocations(l, g, geo, i, j) ==
    IF i >= Len(l.row) THEN geo
    ELSE IF j >= Len(l.row[i + 1]) THEN setLocations(l, g, geo, i + 1, 0)
    ELSE setLocations(l, g,
                      setVertexLocation(geo, l.heap[l.row[i + 1][j + 1]].cell,
                                        locationX(l, g, i, j), locationY(l, g, i, j)),
                      i, j + 1)

\* How often the body of the gradient loop runs, and how often the bodies of
\* the per-node loops of the other three phases run.
RECURSIVE gradientsBodies(_, _)
gradientsBodies(l, i) ==
    IF i >= Len(l.row) THEN 0 ELSE 1 + gradientsBodies(l, i + 1)

RECURSIVE polarBodies(_, _, _)
polarBodies(l, i, j) ==
    IF i >= Len(l.row) THEN 0
    ELSE IF j >= Len(l.row[i + 1]) THEN polarBodies(l, i + 1, 0)
    ELSE 1 + polarBodies(l, i, j + 1)

RECURSIVE reconcileBodies(_, _, _)
reconcileBodies(l, i, j) ==
    IF i < 0 THEN 0
    ELSE IF j >= Len(l.row[i + 1]) THEN reconcileBodies(l, i - 1, 0)
    ELSE 1 + reconcileBodies(l, i, j + 1)

\* What the steps of the post-processing that find children do, from
\* row[i][j] on: the node, its theta before and after the step and the
\* average theta of its children.
RECURSIVE reconcileSteps(_, _, _)
reconcileSteps(l, i, j) ==
    IF i < 0 THEN << >>
    ELSE IF j >= Len(l.row[i + 1]) THEN reconcileSteps(l, i - 1, 0)
    ELSE LET node == l.row[i + 1][j + 1]
             kids == Chain(l.heap, l.heap[node].child)
             step == [node |-> node,
                      before |-> l.heap[node].theta,
                      averTheta |-> Div(totalTheta(l.heap, l.heap[node].child),
                                        1, Len(kids)),
                      after |-> alignedTheta(l, i, j)]
         IN  (IF Len(kids) > 0 THEN << step >> ELSE << >>)
                 \o reconcileSteps([l EXCEPT !.heap[node].theta = alignedTheta(l, i, j)],
                                   i, j + 1)

RECURSIVE setLocationsBodies(_, _, _)
setLocationsBodies(l, i, j) ==
    IF i >= Len(l.row) THEN 0
    ELSE IF j >= Len(l.row[i + 1]) THEN setLocationsBodies(l, i + 1, 0)
    ELSE 1 + setLocationsBodies(l, i, j + 1)

\* The nodes in the rows, and the vertices they stand for.
NodesInRows(l) == UNION {{l.row[i][j] : j \in DOMAIN l.row[i]} : i \in DOMAIN l.row}

CellsInRows(l) == {l.heap[n].cell : n \in NodesInRows(l)}

(***************************************************************************)
(* The graphs laid out                                                     *)
(***************************************************************************)

\* The number of execute calls on the layout instance.
MaxRuns == 3

Even == [par |-> << 0, 0, 0, 0, 0 >>, hidden |-> {},
         w |-> << 20, 20, 20, 20, 20 >>, h |-> << 20, 20, 20, 20, 20 >>]

\* No edges: every vertex is on its own.
Single == Even

\* 1 -> 2 -> 3.
Chain3 == [Even EXCEPT !.par = << 0, 1, 2, 0, 0 >>]

\* 1 -> 2 -> 3 -> 4.
Chain4 == [Even EXCEPT !.par = << 0, 1, 2, 3, 0 >>]

\* 1 -> 2, 1 -> 3.
Star == [Even EXCEPT !.par = << 0, 1, 1, 0, 0 >>]

\* Star, with vertex 3 not visible.
StarHidden == [Star EXCEPT !.hidden = {3}]

\* 1 -> 2, 1 -> 3, 2 -> 4, 2 -> 5.
Bushy == [Even EXCEPT !.par = << 0, 1, 1, 2, 2 >>]

\* 1 -> 2, 1 -> 3, 2 -> 4, 3 -> 5, the parents 2 and 3 of unequal height.
Uneven == [Even EXCEPT !.par = << 0, 1, 1, 2, 3 >>,
                       !.h = << 20, 40, 20, 20, 20 >>]

\* 1 -> 2, 1 -> 3, 1 -> 4, 3 -> 5, with a very wide vertex 5 under 3.
Wide == [Even EXCEPT !.par = << 0, 1, 1, 1, 3 >>,
                     !.w = << 20, 20, 20, 60, 4000 >>]

Graphs == {Single, Chain3, Chain4, Star, StarHidden, Bushy, Uneven, Wide}

\* The roots that execute is called with.
Roots == {1, 2}

(***************************************************************************)
(* The state machine                                                       *)
(***************************************************************************)

VARIABLES
    graph,      \* the edges, the visibility and the sizes of the vertices
    geo,        \* the location of every vertex
    layout,     \* the mxRadialTreeLayout instance, and where execute stands
    obs,        \* what an observer of the calls has recorded
    registry,   \* CodecRegistry.codecs and CodecRegistry.aliases
    toolbar     \* the images and sprites of an mxDefaultToolbar

vars == << graph, geo, layout, obs, registry, toolbar >>

\* The state of the program outside the layouts.
others == << registry, toolbar >>

\* The names of the classes and of the codecs.
Names == {"mxCell", "mxGeometry"}

\* undefined, where a name is expected.
Undefined == "undefined"

\* The static fields of CodecRegistry as the class leaves them (Null and
\* Undefined: no entry under that key), no codec created and no call made.
NewRegistry ==
    [codecs |-> [n \in Names |-> Null], aliases |-> [n \in Names |-> Undefined],
     made |-> 0, registered |-> Null]

\* A toolbar for which no sprite was created and no image made draggable.
NewToolbar == [sprites |-> << >>, draggable |-> << >>]

NoRun == [valid |-> FALSE, graph |-> Single, root |-> Null,
          geo |-> [x |-> [v \in V |-> 0], y |-> [v \in V |-> 0]]]

NoBodies == [gradients |-> 0, polar |-> 0, postprocess |-> 0, locations |-> 0]

Init ==
    /\ graph = Single
    /\ geo = [x |-> [v \in V |-> 40 * (v - 1)], y |-> [v \in V |-> 0]]
    /\ layout = NewLayout
    /\ obs = [pre |-> geo, theta0 |-> << >>, last |-> NoRun, prev |-> NoRun,
              bodies |-> NoBodies, steps |-> << >>, calls |-> 0]
    /\ registry = NewRegistry
    /\ toolbar = NewToolbar

Idle == layout.pc \in {"idle", "done"}

\* The graph is edited between two calls.
SetGraph(gr) ==
    /\ Idle
    /\ gr # graph
    /\ graph' = gr
    /\ layout' = [layout EXCEPT !.pc = "idle"]
    /\ UNCHANGED << geo, obs >>
    /\ UNCHANGED others

\* execute(parent, root) up to the return of super.execute.
SuperExecute(root) ==
    /\ Idle
    /\ layout.gen < MaxRuns
    /\ layout' = [superExecute(layout, graph, root) EXCEPT !.pc = "center"]
    /\ geo' = compactLayout(graph, geo, root)
    /\ obs' = [obs EXCEPT !.pre = geo, !.prev = obs.last, !.theta0 = << >>,
                           !.bodies = NoBodies, !.steps = << >>, !.calls = 0]
    /\ UNCHANGED graph
    /\ UNCHANGED others

ComputeCenter ==
    /\ layout.pc = "center"
    /\ layout' = [computeCenter(layout, graph, geo) EXCEPT !.pc = "rowdims"]
    /\ UNCHANGED << graph, geo, obs >>
    /\ UNCHANGED others

CalcRowDims ==
    /\ layout.pc = "rowdims"
    /\ layout' = [calcRowDims(layout, graph, geo, << layout.node >>, 0)
                     EXCEPT !.pc = "gradients"]
    /\ obs' = [obs EXCEPT !.calls =
                   calcRowDimsCalls(layout, graph, geo, << layout.node >>, 0)]
    /\ UNCHANGED << graph, geo >>
    /\ UNCHANGED others

Gradients ==
    /\ layout.pc = "gradients"
    /\ layout' = [gradients([layout EXCEPT !.maxLeftGrad = 0,
                                            !.maxRightGrad = 0], 0)
                     EXCEPT !.pc = "polar"]
    /\ obs' = [obs EXCEPT !.bodies.gradients = gradientsBodies(layout, 0)]
    /\ UNCHANGED << graph, geo >>
    /\ UNCHANGED others

PolarConversion ==
    /\ layout.pc = "polar"
    /\ layout' = [polar(layout, graph, geo, 0, 0) EXCEPT !.pc = "postprocess"]
    /\ obs' = [obs EXCEPT !.theta0 =
                   [n \in NodesInRows(layout) |-> layout'.heap[n].theta],
                           !.bodies.polar = polarBodies(layout, 0, 0)]
    /\ UNCHANGED << graph, geo >>
    /\ UNCHANGED others

PostProcess ==
    /\ layout.pc = "postprocess"
    /\ layout' = [reconcile(layout, Len(layout.row) - 2, 0)
                     EXCEPT !.pc = "locations"]
    /\ obs' = [obs EXCEPT !.bodies.postprocess =
                   reconcileBodies(layout, Len(layout.row) - 2, 0),
                           !.steps = reconcileSteps(layout, Len(layout.row) - 2, 0)]
    /\ UNCHANGED << graph, geo >>
    /\ UNCHANGED others

SetLocations ==
    /\ layout.pc = "locations"
    /\ layout' = [layout EXCEPT !.pc = "done"]
    /\ geo' = setLocations(layout, graph, geo, 0, 0)
    /\ obs' = [obs EXCEPT !.last = [valid |-> TRUE, graph |-> graph,
                                     root |-> layout.root, geo |-> geo'],
                           !.bodies.locations = setLocationsBodies(layout, 0, 0)]
    /\ UNCHANGED graph
    /\ UNCHANGED others

Next ==
    \/ \E gr \in Graphs : SetGraph(gr)
    \/ \E root \in Roots : SuperExecute(root)
    \/ ComputeCenter
    \/ CalcRowDims
    \/ Gradients
    \/ PolarConversion
    \/ PostProcess
    \/ SetLocations

Spec == Init /\ [][Next]_vars

(***************************************************************************)
(* What the properties speak of                                            *)
(***************************************************************************)

Returned == layout.pc = "done"

\* Row i (counted from 0) and its nodes.
Rows == 0 .. Len(layout.row) - 1

RowAt(i) == layout.row[i + 1]

Theta(n) == layout.heap[n].theta

\* The level of a vertex of the tree below root, the root being level 0.
RECURSIVE Level(_, _, _)
Level(g, root, v) == IF v = root THEN 0 ELSE 1 + Level(g, root, g.par[v])

\* The depth of the tree that execute(parent, root) lays out.
TreeDepth(g, root) ==
    LET levels == {Level(g, root, v) : v \in Visited(g, root)} \cup {0}
    IN  CHOOSE d \in levels : \A e \in levels : e <= d

\* The layout nodes that the current call has built, the root's aside.
BuiltNodes ==
    {n \in DOMAIN layout.heap : n \div 10 = layout.gen} \ {layout.node}

\* |dx, dy| = r, up to the resolution of cos and sin and of a pixel.
OnCircle(dx, dy, r) ==
    LET d2 == dx * dx + dy * dy
        slack == (r * r) \div 50 + 4 * r + 4
    IN  d2 - r * r <= slack /\ r * r - d2 <= slack

\* Every radius that calcRowDims has set is positive, and every row with
\* nodes has a positive fullWidth: no division of the layout is by zero.
RadiiPositive == \A i \in 1 .. Len(layout.rowRadi) : layout.rowRadi[i] > 0

FullWidthPositive ==
    layout.pc \in {"polar", "postprocess"} =>
        \A i \in Rows : Len(RowAt(i)) > 0 => fullWidth(layout, i) > 0

(***************************************************************************)
(* Properties                                                              *)
(***************************************************************************)

\* C1: after execute returns, the centre of the bound of every node n of every
\* row i is (centerX + rowRadi[i] * cos(n.theta), centerY + rowRadi[i] *
\* sin(n.theta)), at distance rowRadi[i] from the centre of the layout, its
\* top left corner being that point minus half the width and the height.
C1_CentreOnCircle ==
    Returned =>
        \A i \in Rows : \A j \in 1 .. Len(RowAt(i)) :
            LET n == RowAt(i)[j]
                v == layout.heap[n].cell
                r == At(layout.rowRadi, i)
                px == Add(layout.centerX, Polar(r, MathCos(Theta(n))))
                py == Add(layout.centerY, Polar(r, MathSin(Theta(n))))
            IN  /\ CenX(graph, geo, v) = px
                /\ CenY(graph, geo, v) = py
                /\ geo.x[v] = px - graph.w[v] \div 2
                /\ geo.y[v] = py - graph.h[v] \div 2
                /\ OnCircle(CenX(graph, geo, v) - layout.centerX,
                            CenY(graph, geo, v) - layout.centerY, r)

\* C1 on an instance that has run execute once only.
FirstRunCentreOnCircle == layout.gen <= 1 => C1_CentreOnCircle

\* C2: after the polar conversion and before the post-processing, the nodes
\* of every row have their theta in the order of the centre x of their
\* bounds: if a lies no further right than b then a.theta <= b.theta.
C2_AngularOrder ==
    layout.pc = "postprocess" =>
        \A i \in Rows : \A a, b \in {RowAt(i)[j] : j \in 1 .. Len(RowAt(i))} :
            /\ IsNum(Theta(a))
            /\ CenX(graph, geo, layout.heap[a].cell)
                   <= CenX(graph, geo, layout.heap[b].cell)
                => Theta(a) <= Theta(b)

\* Two nodes of one row at different x get different angles in that order,
\* on an instance whose rows are not all of the current tree.
C2_Witness ==
    /\ layout.pc = "postprocess"
    /\ Len(layout.row) > TreeDepth(graph, layout.root)
    /\ \E i \in Rows : \E a, b \in {RowAt(i)[j] : j \in 1 .. Len(RowAt(i))} :
           /\ CenX(graph, geo, layout.heap[a].cell)
                  < CenX(graph, geo, layout.heap[b].cell)
           /\ Theta(a) < Theta(b)

\* The theta that the polar conversion gave a node of a row.
Theta0(n) == obs.theta0[n]

\* C3: after the post-processing, two adjacent nodes of a row of which one
\* had its theta changed lie at least PI / 10 apart, and no two nodes of a
\* row have the order of their theta inverted.
C3_SeparationKept ==
    layout.pc = "locations" =>
        \A i \in Rows :
            /\ \A j \in 1 .. Len(RowAt(i)) - 1 :
                   LET a == RowAt(i)[j]
                       b == RowAt(i)[j + 1]
                   IN  (Theta(a) # Theta0(a) \/ Theta(b) # Theta0(b))
                           => Theta(b) - Theta(a) >= PI \div 10
            /\ \A a, b \in {RowAt(i)[j] : j \in 1 .. Len(RowAt(i))} :
                   Theta0(a) < Theta0(b) => Theta(a) <= Theta(b)

\* C4: a second execute with the same root on the unchanged graph leaves
\* every vertex where the first one left it.
C4_Idempotent ==
    (/\ Returned
     /\ obs.prev.valid
     /\ obs.prev.graph = graph
     /\ obs.prev.root = layout.root)
        => geo = obs.prev.geo

\* C5: after any sequence of calls the row arrays have one entry for every
\* level of the tree of the last call and none beyond, and row[i+1] exists
\* only if a node of row[i] has a child.  (Stated for a last tree of depth
\* one at least: the row of a tree that is a root alone is C7 and C8.)
C5_RowsOfCurrentTree ==
    (Returned /\ TreeDepth(graph, layout.root) >= 1) =>
        /\ Len(layout.row) = TreeDepth(graph, layout.root)
        /\ Len(layout.rowMinX) = Len(layout.row)
        /\ Len(layout.rowMaxX) = Len(layout.row)
        /\ Len(layout.rowMinCenX) = Len(layout.row)
        /\ Len(layout.rowMaxCenX) = Len(layout.row)
        /\ Len(layout.rowRadi) = Len(layout.row)
        /\ \A i \in Rows :
               i + 1 \in Rows =>
                   \E j \in 1 .. Len(RowAt(i)) : layout.heap[RowAt(i)[j]].child # Null

\* C6: the nodes that a call gives a theta and whose vertices it moves are
\* the nodes that this call has built, the root's aside, and no other.
C6_OnlyOwnNodes ==
    Returned =>
        /\ DOMAIN obs.theta0 = BuiltNodes
        /\ NodesInRows(layout) = BuiltNodes

\* The root of the current call has no child in the tree.
RootAlone == Len(Kids(graph, layout.root)) = 0

FirstRun == layout.gen = 1

RootUnmoved ==
    /\ geo.x[layout.root] = obs.pre.x[layout.root]
    /\ geo.y[layout.root] = obs.pre.y[layout.root]

\* C7 as claimed: on a new instance, a root with no children keeps its
\* position and there is no row after the call.
C7_NoRow ==
    (Returned /\ FirstRun /\ RootAlone) => (RootUnmoved /\ Len(layout.row) = 0)

\* C7: on a new instance, a root with no children keeps its position and
\* there is one row after the call, which is empty.
C7_OneEmptyRow ==
    (Returned /\ FirstRun /\ RootAlone) =>
        (RootUnmoved /\ Len(layout.row) = 1 /\ Len(layout.row[1]) = 0)

C7_Witness == Returned /\ FirstRun /\ graph = Single /\ layout.row = << << >> >>

\* C8 as claimed: on a new instance, a root with no children gives one row
\* of length zero, the body of no loop runs, no vertex gets an angle or a
\* location and the root is not moved.
C8_NoLoopBody ==
    (Returned /\ FirstRun /\ RootAlone) =>
        /\ layout.row = << << >> >>
        /\ obs.bodies = NoBodies
        /\ DOMAIN obs.theta0 = {}
        /\ geo = obs.pre

\* C8: on a new instance, a root with no children gives one row of length
\* zero; the body of the gradient loop runs once, for that row, and leaves
\* both gradients NaN; the per-node bodies of the other loops do not run, no
\* vertex gets an angle or a location and the root is not moved.
C8_OnlyGradientBody ==
    (Returned /\ FirstRun /\ RootAlone) =>
        /\ layout.row = << << >> >>
        /\ obs.bodies = [NoBodies EXCEPT !.gradients = 1]
        /\ ~IsNum(layout.maxLeftGrad) /\ ~IsNum(layout.maxRightGrad)
        /\ DOMAIN obs.theta0 = {}
        /\ geo = obs.pre

C8_Witness ==
    /\ Returned /\ FirstRun /\ RootAlone
    /\ obs.bodies.gradients = 1
    /\ layout.rowRadi = << >>

\* The tree of the current call is a chain root -> A -> B.
IsChain3 ==
    /\ Len(Kids(graph, layout.root)) = 1
    /\ Len(Kids(graph, Kids(graph, layout.root)[1])) = 1
    /\ Len(Kids(graph, Kids(graph, Kids(graph, layout.root)[1])[1])) = 0

NodeA == NodeOf(layout.gen, Kids(graph, layout.root)[1])

NodeB == NodeOf(layout.gen, Kids(graph, Kids(graph, layout.root)[1])[1])

Dist(a, b) == IF a >= b THEN a - b ELSE b - a

\* C9: a chain root -> A -> B gives exactly the rows [A] and [B], and
\* whenever the theta of A and B differ the post-processing moves that of A
\* strictly closer to that of B.
C9_PulledTowardChild ==
    (layout.pc = "locations" /\ IsChain3) =>
        /\ layout.row = << << NodeA >>, << NodeB >> >>
        /\ Theta0(NodeA) # Theta0(NodeB)
               => Dist(Theta(NodeA), Theta(NodeB)) < Dist(Theta0(NodeA), Theta0(NodeB))

\* C9 on an instance that has run execute once only: there the theta of A
\* and of B are equal after the polar conversion.
FirstRunChainAligned ==
    (layout.pc = "locations" /\ IsChain3 /\ FirstRun) =>
        /\ layout.row = << << NodeA >>, << NodeB >> >>
        /\ Theta0(NodeA) = Theta0(NodeB)
        /\ Theta(NodeA) = Theta0(NodeA)

\* The phases of execute from the return of calcRowDims on.
RowsBuilt == layout.pc \in {"gradients", "polar", "postprocess", "locations", "done"}

\* C10: a vertex without connections, or one the base class ignores, is
\* ignored, is the vertex of no node of any row, and is not moved by execute.
C10_UnconnectedUntouched ==
    \A v \in V :
        (Cardinality(getConnections(graph, v)) = 0 \/ baseIsVertexIgnored(graph, v)) =>
            /\ isVertexIgnored(graph, v)
            /\ RowsBuilt => v \notin CellsInRows(layout)
            /\ Returned => (geo.x[v] = obs.pre.x[v] /\ geo.y[v] = obs.pre.y[v])

\* The virtual limits of row i enclose the row, up to the resolution of a
\* gradient (a gradient is cut to a multiple of 1 / GradScale, which moves a
\* limit by less than rowRadi[i] / GradScale pixels).
LimitsEnclose(i) ==
    /\ IsNum(xLeftLimit(layout, i)) /\ IsNum(xRightLimit(layout, i))
    /\ xLeftLimit(layout, i)
           < At(layout.rowMinX, i) * GradScale + At(layout.rowRadi, i)
    /\ At(layout.rowMaxX, i) * GradScale - At(layout.rowRadi, i)
           < xRightLimit(layout, i)

\* C11: after the polar conversion every node of every row has
\* 0 <= theta < 2 * PI, the virtual limits of its row enclosing the row.
C11_ThetaInRange ==
    layout.pc = "postprocess" =>
        \A i \in Rows :
            Len(RowAt(i)) > 0 =>
                /\ LimitsEnclose(i)
                /\ \A j \in 1 .. Len(RowAt(i)) :
                       /\ IsNum(Theta(RowAt(i)[j]))
                       /\ 0 <= Theta(RowAt(i)[j])
                       /\ Theta(RowAt(i)[j]) < 2 * PI

\* C11 on an instance that has run execute once only.
FirstRunThetaInRange == FirstRun => C11_ThetaInRange

(***************************************************************************)
(* Two layout instances on two graphs, their calls interleaved             *)
(***************************************************************************)

\* The number of execute calls on each of the two instances.
MaxRunsEach == 2

Instances == {1, 2}

\* The graphs the two instances lay out, and the roots they are called with.
TwoGraphs == {Chain4, Bushy}

\* The array fields of an instance.
ArrayFields == {"rowMinX", "rowMaxX", "rowMinCenX", "rowMaxCenX", "rowRadi", "row"}

\* The arrays that the field initialisers would give an instance if they
\* were evaluated once for the class, not once for every instance.
arraysOfClass(k) ==
    [rowMinX |-> 1, rowMaxX |-> 2, rowMinCenX |-> 3, rowMaxCenX |-> 4,
     rowRadi |-> 5, row |-> 6]

\* The arrays of instance k: each field initialiser (rowMinX = [], ...) is
\* evaluated for every new instance and gives it an array of its own.
arraysOfInstance(k) ==
    [rowMinX |-> 10 * k + 1, rowMaxX |-> 10 * k + 2, rowMinCenX |-> 10 * k + 3,
     rowMaxCenX |-> 10 * k + 4, rowRadi |-> 10 * k + 5, row |-> 10 * k + 6]

\* The first run number of instance k: the layout nodes of the two
\* instances are different objects.
FirstGen(k) == (k - 1) * (MaxRunsEach + 1)

\* Instance k as the constructor leaves it, its arrays held by reference.
NewInstance(k) ==
    [pc |-> "idle", gen |-> FirstGen(k), root |-> Null, node |-> Null,
     centerX |-> NaN, centerY |-> NaN, maxLeftGrad |-> 0, maxRightGrad |-> 0,
     arrays |-> arraysOfInstance(k)]

\* The objects of the program: the arrays and the layout nodes.
NewObjects ==
    [arrays |-> [r \in UNION {{arraysOfInstance(k)[f] : f \in ArrayFields} :
                                  k \in Instances}
                          \cup {arraysOfClass(1)[f] : f \in ArrayFields} |-> << >>],
     nodes |-> << >>]

\* this, as the methods of instance k see it: every array field read
\* through its reference.
This(lay, k) ==
    LET me == lay.inst[k]
    IN  [pc |-> me.pc, gen |-> me.gen, root |-> me.root, node |-> me.node,
         heap |-> lay.objects.nodes,
         centerX |-> me.centerX, centerY |-> me.centerY,
         rowMinX |-> lay.objects.arrays[me.arrays.rowMinX],
         rowMaxX |-> lay.objects.arrays[me.arrays.rowMaxX],
         rowMinCenX |-> lay.objects.arrays[me.arrays.rowMinCenX],
         rowMaxCenX |-> lay.objects.arrays[me.arrays.rowMaxCenX],
         rowRadi |-> lay.objects.arrays[me.arrays.rowRadi],
         row |-> lay.objects.arrays[me.arrays.row],
         maxLeftGrad |-> me.maxLeftGrad, maxRightGrad |-> me.maxRightGrad]

\* The program after a step of instance k that leaves this as l: the
\* writes to an array go to the array the field refers to.
Written(lay, k, l) ==
    LET me == lay.inst[k]
    IN  [inst |-> [lay.inst EXCEPT ![k] =
                      [pc |-> l.pc, gen |-> l.gen, root |-> l.root,
                       node |-> l.node, centerX |-> l.centerX,
                       centerY |-> l.centerY, maxLeftGrad |-> l.maxLeftGrad,
                       maxRightGrad |-> l.maxRightGrad, arrays |-> me.arrays]],
         objects |->
             [arrays |-> [r \in DOMAIN lay.objects.arrays |->
                             IF r = me.arrays.row THEN l.row
                             ELSE IF r = me.arrays.rowRadi THEN l.rowRadi
                             ELSE IF r = me.arrays.rowMaxCenX THEN l.rowMaxCenX
                             ELSE IF r = me.arrays.rowMinCenX THEN l.rowMinCenX
                             ELSE IF r = me.arrays.rowMaxX THEN l.rowMaxX
                             ELSE IF r = me.arrays.rowMinX THEN l.rowMinX
                             ELSE lay.objects.arrays[r]],
              nodes |-> l.heap]]

\* execute(parent, root) of an instance that no other instance runs beside:
\* the instance and the bounds when it returns.
executeAlone(l, g, bounds, root) ==
    LET compact == compactLayout(g, bounds, root)
        centred == computeCenter(superExecute(l, g, root), g, compact)
        rowed == calcRowDims(centred, g, compact, << centred.node >>, 0)
        graded == gradients([rowed EXCEPT !.maxLeftGrad = 0,
                                          !.maxRightGrad = 0], 0)
        angled == polar(graded, g, compact, 0, 0)
        aligned == reconcile(angled, Len(angled.row) - 2, 0)
    IN  [layout |-> [aligned EXCEPT !.pc = "done"],
         geo |-> setLocations(aligned, g, compact, 0, 0)]

\* The bounds of the vertices of a graph before the first call.
FirstBounds == [x |-> [v \in V |-> 40 * (v - 1)], y |-> [v \in V |-> 0]]

InitTwo ==
    /\ graph \in [Instances -> TwoGraphs]
    /\ geo = [k \in Instances |-> FirstBounds]
    /\ layout = [inst |-> [k \in Instances |-> NewInstance(k)],
                 objects |-> NewObjects]
    /\ obs = [alone |-> [k \in Instances |->
                            [layout |-> [NewLayout EXCEPT !.gen = FirstGen(k)],
                             geo |-> FirstBounds]],
              mixed |-> [k \in Instances |-> FALSE]]
    /\ registry = NewRegistry
    /\ toolbar = NewToolbar

Running(k) == layout.inst[k].pc \notin {"idle", "done"}

\* A step of instance k between two steps of a call of another instance.
Mixed(k) ==
    [j \in Instances |-> obs.mixed[j] \/ (j # k /\ layout.inst[j].pc \notin {"idle", "done"})]

\* A step of instance k from phase from to phase to that leaves this as l.
StepOf(k, from, to, l) ==
    /\ layout.inst[k].pc = from
    /\ layout' = Written(layout, k, [l EXCEPT !.pc = to])
    /\ obs' = [obs EXCEPT !.mixed = Mixed(k)]
    /\ UNCHANGED << graph, geo >>
    /\ UNCHANGED others

SuperExecuteOf(k, root) ==
    /\ ~Running(k)
    /\ layout.inst[k].gen < FirstGen(k) + MaxRunsEach
    /\ layout' = Written(layout, k,
                         [superExecute(This(layout, k), graph[k], root)
                             EXCEPT !.pc = "center"])
    /\ geo' = [geo EXCEPT ![k] = compactLayout(graph[k], geo[k], root)]
    /\ obs' = [obs EXCEPT
                   !.mixed = Mixed(k),
                   !.alone[k] = executeAlone(obs.alone[k].layout, graph[k],
                                             obs.alone[k].geo, root)]
    /\ UNCHANGED graph
    /\ UNCHANGED others

ComputeCenterOf(k) ==
    StepOf(k, "center", "rowdims", computeCenter(This(layout, k), graph[k], geo[k]))

CalcRowDimsOf(k) ==
    StepOf(k, "rowdims", "gradients",
           calcRowDims(This(layout, k), graph[k], geo[k],
                       << layout.inst[k].node >>, 0))

GradientsOf(k) ==
    StepOf(k, "gradients", "polar",
           gradients([This(layout, k) EXCEPT !.maxLeftGrad = 0,
                                             !.maxRightGrad = 0], 0))

PolarConversionOf(k) ==
    StepOf(k, "polar", "postprocess", polar(This(layout, k), graph[k], geo[k], 0, 0))

PostProcessOf(k) ==
    StepOf(k, "postprocess", "locations",
           reconcile(This(layout, k), Len(This(layout, k).row) - 2, 0))

SetLocationsOf(k) ==
    /\ layout.inst[k].pc = "locations"
    /\ layout' = Written(layout, k, [This(layout, k) EXCEPT !.pc = "done"])
    /\ geo' = [geo EXCEPT ![k] = setLocations(This(layout, k), graph[k], geo[k], 0, 0)]
    /\ obs' = [obs EXCEPT !.mixed = Mixed(k)]
    /\ UNCHANGED graph
    /\ UNCHANGED others

NextTwo ==
    \E k \in Instances :
        \/ \E root \in Roots : SuperExecuteOf(k, root)
        \/ ComputeCenterOf(k)
        \/ CalcRowDimsOf(k)
        \/ GradientsOf(k)
        \/ PolarConversionOf(k)
        \/ PostProcessOf(k)
        \/ SetLocationsOf(k)

SpecTwo == InitTwo /\ [][NextTwo]_vars

\* What instance k holds of the rows, the centre and the angles.
Outcome(l) ==
    [row |-> l.row, rowMinX |-> l.rowMinX, rowMaxX |-> l.rowMaxX,
     rowMinCenX |-> l.rowMinCenX, rowMaxCenX |-> l.rowMaxCenX,
     rowRadi |-> l.rowRadi, centerX |-> l.centerX, centerY |-> l.centerY,
     theta |-> [n \in NodesInRows(l) |-> l.heap[n].theta]]

\* C12: when the phases of the calls of two instances on two graphs are
\* interleaved, each instance returns with the rows, the centre, the angles
\* and the bounds that it has when it runs alone.
C12_InstancesIsolated ==
    \A k \in Instances :
        layout.inst[k].pc = "done" =>
            /\ Outcome(This(layout, k)) = Outcome(obs.alone[k].layout)
            /\ geo[k] = obs.alone[k].geo

\* Both instances have returned from a second call, each having run
\* between the steps of a call of the other, on different graphs.
C12_Witness ==
    /\ \A k \in Instances :
           /\ layout.inst[k].pc = "done"
           /\ layout.inst[k].gen = FirstGen(k) + MaxRunsEach
           /\ obs.mixed[k]
           /\ Len(This(layout, k).row) >= 2
    /\ graph[1] # graph[2]
    /\ This(layout, 1).row # This(layout, 2).row

(***************************************************************************)
(* CodecRegistry                                                           *)
(***************************************************************************)

\* The number of codecs that getCodec creates.
MaxMade == 2

\* The codecs that the callers register: codec.getName() and
\* codec.template.constructor.name of each.
Codecs == {1, 2, 3, 4}

getName(c) ==
    IF c \in {1, 2} THEN "mxCell" ELSE IF c \in {3, 4} THEN "mxGeometry"
    ELSE IF c % 2 = 1 THEN "mxCell" ELSE "mxGeometry"

classnameOf(c) == IF c % 2 = 1 THEN "mxCell" ELSE "mxGeometry"

\* new ObjectCodec(new constructor_()): a codec under the name of the class.
newObjectCodec(reg, classname) ==
    10 * (reg.made + 1) + (IF classname = "mxCell" THEN 1 ELSE 2)

\* CodecRegistry.aliases[name] ?? name.
aliasOrName(reg, name) ==
    IF reg.aliases[name] # Undefined THEN reg.aliases[name] ELSE name

addAlias(reg, classname, codecname) ==
    [reg EXCEPT !.aliases[classname] = codecname]

register(reg, codec) ==
    IF codec # Null
    THEN LET named == [reg EXCEPT !.codecs[getName(codec)] = codec]
         IN  IF classnameOf(codec) # getName(codec)
             THEN addAlias(named, classnameOf(codec), getName(codec))
             ELSE named
    ELSE reg

getCodecByName(reg, name) == reg.codecs[name]

\* getCodec(constructor_) for a constructor of the class classname, which
\* constructs or throws: the registry after the call and what it returns.
getCodec(reg, classname, constructs) ==
    LET name == aliasOrName(reg, classname)
        codec == reg.codecs[name]
    IN  IF codec = Null /\ constructs
        THEN [registry |-> [register(reg, newObjectCodec(reg, classname))
                               EXCEPT !.made = reg.made + 1],
              codec |-> newObjectCodec(reg, classname)]
        ELSE [registry |-> reg, codec |-> codec]

InitRegistry ==
    /\ registry = NewRegistry
    /\ toolbar = NewToolbar
    /\ graph = Single
    /\ geo = FirstBounds
    /\ layout = NewLayout
    /\ obs = << >>

Register(codec) ==
    /\ registry' = [register(registry, codec) EXCEPT !.registered = codec]
    /\ UNCHANGED << graph, geo, layout, obs, toolbar >>

AddAlias(classname, codecname) ==
    /\ registry' = [addAlias(registry, classname, codecname)
                       EXCEPT !.registered = Null]
    /\ UNCHANGED << graph, geo, layout, obs, toolbar >>

GetCodec(classname, constructs) ==
    /\ registry.made < MaxMade
    /\ registry' = [getCodec(registry, classname, constructs).registry
                       EXCEPT !.registered = Null]
    /\ UNCHANGED << graph, geo, layout, obs, toolbar >>

NextRegistry ==
    \/ \E codec \in Codecs : Register(codec)
    \/ \E classname, codecname \in Names : AddAlias(classname, codecname)
    \/ \E classname \in Names : \E constructs \in BOOLEAN :
           GetCodec(classname, constructs)

SpecRegistry == InitRegistry /\ [][NextRegistry]_vars

\* C13: right after register(c) returns, getCodecByName(c.getName()) is c
\* and getCodec(c.template.constructor) is c, whatever calls came before.
C13_RegisteredIsFound ==
    registry.registered # Null =>
        /\ getCodecByName(registry, getName(registry.registered))
               = registry.registered
        /\ \A constructs \in BOOLEAN :
               getCodec(registry, classnameOf(registry.registered), constructs).codec
                   = registry.registered

\* C13 for a codec whose name differs from the name of its class.
AliasedIsFound ==
    (/\ registry.registered # Null
     /\ getName(registry.registered) # classnameOf(registry.registered))
        => C13_RegisteredIsFound

(***************************************************************************)
(* mxDefaultToolbar.installDropHandler                                     *)
(***************************************************************************)

\* The number of installDropHandler calls.
MaxSprites == 3

\* The images of the toolbar (what toolbar.addMode returns), each with its
\* offsetWidth and offsetHeight.
Imgs == {1, 2, 3}

offsetWidth(img) == 16 * img

offsetHeight(img) == 16

\* The body of loader for sprite number s: the sprite gets twice the size of
\* the image, the image is made draggable and the listener is removed.
loader(tb, s) ==
    [tb EXCEPT
        !.sprites[s].width = 2 * offsetWidth(tb.sprites[s].img),
        !.sprites[s].height = 2 * offsetHeight(tb.sprites[s].img),
        !.draggable = Append(tb.draggable, [img |-> tb.sprites[s].img, sprite |-> s]),
        !.sprites[s].onload = tb.sprites[s].onload \ {"loader"}]

\* installDropHandler(img, dropHandler): a sprite with the src of the
\* image is created; loader is defined and is added to no event.
installDropHandler(tb, img) ==
    [tb EXCEPT !.sprites = Append(tb.sprites,
                   [img |-> img, src |-> img, onload |-> {}, loaded |-> FALSE,
                    width |-> 0, height |-> 0])]

\* The load event of sprite number s: its load listeners are called.
load(tb, s) ==
    [(IF "loader" \in tb.sprites[s].onload THEN loader(tb, s) ELSE tb)
        EXCEPT !.sprites[s].loaded = TRUE]

InitToolbar ==
    /\ toolbar = NewToolbar
    /\ registry = NewRegistry
    /\ graph = Single
    /\ geo = FirstBounds
    /\ layout = NewLayout
    /\ obs = << >>

InstallDropHandler(img) ==
    /\ Len(toolbar.sprites) < MaxSprites
    /\ toolbar' = installDropHandler(toolbar, img)
    /\ UNCHANGED << graph, geo, layout, obs, registry >>

\* The browser has loaded the image of a sprite.
Load(s) ==
    /\ s <= Len(toolbar.sprites)
    /\ ~toolbar.sprites[s].loaded
    /\ toolbar' = load(toolbar, s)
    /\ UNCHANGED << graph, geo, layout, obs, registry >>

NextToolbar ==
    \/ \E img \in Imgs : InstallDropHandler(img)
    \/ \E s \in 1 .. MaxSprites : Load(s)

SpecToolbar == InitToolbar /\ [][NextToolbar]_vars

\* C14: once the load event of the sprite of an installDropHandler call has
\* occurred, makeDraggable has been called for its image with that sprite,
\* exactly once, and the load listener is removed.
C14_DraggableOnceLoaded ==
    \A s \in 1 .. Len(toolbar.sprites) :
        toolbar.sprites[s].loaded =>
            /\ Cardinality({d \in 1 .. Len(toolbar.draggable) :
                               toolbar.draggable[d]
                                   = [img |-> toolbar.sprites[s].img, sprite |-> s]}) = 1
            /\ toolbar.sprites[s].onload = {}

\* No image is ever made draggable.
NeverDraggable == toolbar.draggable = << >>

(***************************************************************************)
(* The steps of the post-processing                                        *)
(***************************************************************************)

\* C15: a step of the post-processing that changes the theta of a node
\* leaves it no farther from the average theta of its children than it was,
\* and does not move it away from that average.
C15_TowardAverage ==
    layout.pc = "locations" =>
        \A k \in 1 .. Len(obs.steps) :
            LET step == obs.steps[k]
            IN  step.after # step.before =>
                    /\ Dist(step.after, step.averTheta)
                           <= Dist(step.before, step.averTheta)
                    /\ step.averTheta > step.before => step.after > step.before
                    /\ step.averTheta < step.before => step.after < step.before

(***************************************************************************)
(* The radius of a row                                                     *)
(***************************************************************************)

\* The state in which calcRowDims has returned to execute.
AfterCalcRowDims == layout.pc = "gradients"

\* bounds(cell).y - bounds(root).y of the vertex of a layout node.
YDistance(n) == geo.y[layout.heap[n].cell] - geo.y[layout.root]

\* The y of the compact layout grows with the depth in the tree.
MonotonicY ==
    \A v \in Visited(graph, layout.root) \ {layout.root} :
        geo.y[v] > geo.y[graph.par[v]]

\* C16 as claimed: after calcRowDims, rowRadi[i] is the y distance from the
\* root of the vertex of every node of row i, also in a row whose vertices
\* do not share one y.
C16_RadiusOfEveryNode ==
    (AfterCalcRowDims /\ MonotonicY) =>
        \A i \in Rows : \A j \in 1 .. Len(RowAt(i)) :
            At(layout.rowRadi, i) = YDistance(RowAt(i)[j])

\* C16: after calcRowDims, for every row i that the call has filled,
\* rowRadi[i] is the y distance from the root of the vertex of the last node
\* of row i.
C16_RadiusOfLastNode ==
    (AfterCalcRowDims /\ MonotonicY) =>
        \A i \in 0 .. TreeDepth(graph, layout.root) - 1 :
            /\ Len(RowAt(i)) > 0
            /\ At(layout.rowRadi, i) = YDistance(RowAt(i)[Len(RowAt(i))])

\* calcRowDims has filled a row whose first and last vertex differ in y.
C16_Witness ==
    /\ AfterCalcRowDims
    /\ MonotonicY
    /\ \E i \in 0 .. TreeDepth(graph, layout.root) - 1 :
           /\ Len(RowAt(i)) > 1
           /\ YDistance(RowAt(i)[1]) # YDistance(RowAt(i)[Len(RowAt(i))])

(***************************************************************************)
(* The rows and the tree                                                   *)
(***************************************************************************)

\* The places (i, j) of the rows, row and column counted from 0.
Places == UNION {{<< i, j - 1 >> : j \in 1 .. Len(RowAt(i))} : i \in Rows}

\* The layout node of the parent of the vertex of node n, in the same run.
ParentNode(n) == NodeOf(n \div 10, graph.par[layout.heap[n].cell])

\* The place of a vertex among the children of its parent, in edge order.
SiblingIndex(v) ==
    CHOOSE k \in 1 .. Len(Kids(graph, graph.par[v])) : Kids(graph, graph.par[v])[k] = v

\* Node a stands before node b in row i: a is an earlier child of the same
\* parent, or the parent of a stands before the parent of b in row i - 1.
RECURSIVE Before(_, _, _)
Before(i, a, b) ==
    IF ParentNode(a) = ParentNode(b)
    THEN SiblingIndex(layout.heap[a].cell) < SiblingIndex(layout.heap[b].cell)
    ELSE i > 0 /\ Before(i - 1, ParentNode(a), ParentNode(b))

\* C17: after execute on a new instance, every node of the tree but the
\* root stands in exactly one place of the rows, in row depth - 1, the
\* nodes of a row in the order of the tree from left to right; the root
\* stands in no row; the angle and the location loops handle each node once.
C17_RowsPartitionByDepth ==
    (Returned /\ FirstRun) =>
        /\ \A n \in BuiltNodes :
               /\ Cardinality({p \in Places : RowAt(p[1])[p[2] + 1] = n}) = 1
               /\ \E p \in Places :
                      /\ RowAt(p[1])[p[2] + 1] = n
                      /\ p[1] = Level(graph, layout.root, layout.heap[n].cell) - 1
        /\ \A p \in Places : RowAt(p[1])[p[2] + 1] \in BuiltNodes
        /\ \A p, q \in Places :
               (p[1] = q[1] /\ p[2] < q[2])
                   => Before(p[1], RowAt(p[1])[p[2] + 1], RowAt(q[1])[q[2] + 1])
        /\ obs.bodies.polar = Cardinality(BuiltNodes)
        /\ obs.bodies.locations = Cardinality(BuiltNodes)

\* A new instance has laid out a tree with two rows of two nodes each.
C17_Witness ==
    /\ Returned /\ FirstRun
    /\ Len(layout.row) = 2
    /\ Len(RowAt(0)) = 2
    /\ Len(RowAt(1)) = 2
    /\ ParentNode(RowAt(1)[1]) # ParentNode(RowAt(1)[2])

(***************************************************************************)
(* The calls of calcRowDims                                                *)
(***************************************************************************)

\* A node of row i has a child.
HasParent(i) ==
    \E j \in 1 .. Len(RowAt(i)) : layout.heap[RowAt(i)[j]].child # Null

\* C18 as claimed: calcRowDims returns after depth(tree) calls, one for
\* every row with nodes; it goes on from row i to row i + 1 only if a node
\* of row i has a child and stops at the first row of leaves.
C18_CallsEqualDepth ==
    AfterCalcRowDims =>
        /\ obs.calls = TreeDepth(graph, layout.root)
        /\ \A i \in 0 .. obs.calls - 2 : HasParent(i)
        /\ obs.calls >= 1 => ~HasParent(obs.calls - 1)

\* C18: calcRowDims returns after depth(tree) calls, one for every row with
\* nodes, and after one call for a tree that is its root alone; it goes on
\* from row i to row i + 1 only if a node of row i has a child and stops at
\* the first row of leaves.
C18_CallsEqualDepthOrOne ==
    AfterCalcRowDims =>
        /\ obs.calls = (IF TreeDepth(graph, layout.root) = 0 THEN 1
                        ELSE TreeDepth(graph, layout.root))
        /\ \A i \in 0 .. obs.calls - 2 : HasParent(i)
        /\ ~HasParent(obs.calls - 1)
        /\ \A i \in 0 .. obs.calls - 1 :
               TreeDepth(graph, layout.root) > 0 => Len(RowAt(i)) > 0

\* calcRowDims has returned from three calls, on a tree of depth three.
C18_Witness ==
    /\ AfterCalcRowDims
    /\ obs.calls = 3
    /\ TreeDepth(graph, layout.root) = 3

====
